---- MODULE Spec2Model ----
(***************************************************************************)
(* Model of the route segmentation and risk scoring of src/app.py:         *)
(* get_route_api from the call of analyze_image_cv (line 115) to its       *)
(* response (lines 181-190), with calculate_curvature and                  *)
(* analyze_image_cv.  The graph, the route and the image are inputs.       *)
(***************************************************************************)
EXTENDS Integers, Sequences, FiniteSets, TLC

VARIABLES
    pc,         \* position in get_route_api: "cv", "loop", "done", "error"
    route,      \* the node path of nx.shortest_path (line 109)
    graph,      \* the edge data of the pairs (u, v) that are edges of the graph
    rand,       \* next value of the random module's stream (line 8), in tenths
    image,      \* what analyze_image_cv found on disk
    cv_score,   \* line 115
    i,          \* loop index of line 121
    curve, lanes, hw, risk, reasons, r_level, color,   \* locals of the loop body
    segments, stats, hazards,                          \* lines 117-119
    emitted,    \* history: for each appended segment its pair, score and reasons
    status, response                                   \* the HTTP answer

vars == <<pc, route, graph, rand, image, cv_score, i, curve, lanes, hw, risk,
          reasons, r_level, color, segments, stats, hazards, emitted, status,
          response>>

(***************************************************************************)
(* Bounds of the model.                                                    *)
(***************************************************************************)
NumNodes == 3
MaxRouteLen == 3
MaxScore == 100

Nodes == 1 .. NumNodes

(***************************************************************************)
(* Python values of the edge tags: a string, a list of strings, None, or   *)
(* the key being absent from the edge's dict.                              *)
(***************************************************************************)
Str(s) == [t |-> "str", s |-> s, l |-> <<>>]
List(l) == [t |-> "list", s |-> "", l |-> l]
NoneV == [t |-> "none", s |-> "", l |-> <<>>]
Absent == [t |-> "absent", s |-> "", l |-> <<>>]

DictGet(field, default) == IF field = Absent THEN default ELSE field

\* int(x) of line 149: the decimal strings among the tag values; every other
\* string raises ValueError and None raises TypeError.
IntLiteral == [s \in {"0", "1", "2", "4"} |->
                 CASE s = "0" -> 0 [] s = "1" -> 1 [] s = "2" -> 2 [] s = "4" -> 4]
CanInt(x) == x.t = "str" /\ x.s \in DOMAIN IntLiteral
IntOf(x) == IntLiteral[x.s]

(***************************************************************************)
(* calculate_curvature.  A geometry is None or a line string, given by the *)
(* turn in whole degrees at each interior vertex (len(coords) - 2 of them);*)
(* Degenerate marks a vertex where norm1 or norm2 is 0.                    *)
(***************************************************************************)
Degenerate == -1
NoGeometry == [present |-> FALSE, turns |-> <<>>]
Line(turns) == [present |-> TRUE, turns |-> turns]

RECURSIVE total_turn(_)
total_turn(turns) ==
    IF turns = <<>> THEN 0
    ELSE (IF Head(turns) # Degenerate THEN Head(turns) ELSE 0) + total_turn(Tail(turns))

calculate_curvature(geometry) ==
    IF ~geometry.present THEN 0
    ELSE IF Len(geometry.turns) + 2 < 3 THEN 0
    ELSE total_turn(geometry.turns)

(***************************************************************************)
(* analyze_image_cv.  An image is described by whether cv2 imports, the    *)
(* file exists, imread returns an image, the processing raises, and the    *)
(* edge density in percent.                                                *)
(***************************************************************************)
Image(imp, ex, rd, ok, d) ==
    [cv2 |-> imp, exists |-> ex, readable |-> rd, processed |-> ok, density |-> d]

\* Mutant: the edge density itself is returned instead of its bucket.
analyze_image_cv_raw(img) ==
    IF ~img.cv2 \/ ~img.exists \/ ~img.readable \/ ~img.processed THEN 0
    ELSE img.density

analyze_image_cv(img) ==
    IF ~img.cv2 THEN 0
    ELSE IF ~img.exists THEN 0
    ELSE IF ~img.readable THEN 0
    ELSE IF ~img.processed THEN 0
    ELSE IF img.density > 5 THEN 20
    ELSE IF img.density > 2 THEN 10
    ELSE 0

(***************************************************************************)
(* The risk factors of the loop body, each giving its addition to risk and *)
(* the reasons it appends.                                                 *)
(***************************************************************************)
Factor(r, rs) == [risk |-> r, reasons |-> rs]

CurvatureFactor(c) ==
    IF c > 45 THEN Factor(30, <<"Sharp Curve">>)
    ELSE IF c > 20 THEN Factor(10, <<"Winding Road">>)
    ELSE Factor(0, <<>>)

\* Mutant: the comparison of line 149 as int(lanes) < 1.
LanesFactorStrict(x) ==
    IF CanInt(x) /\ IntOf(x) < 1 THEN Factor(20, <<"Narrow Road">>)
    ELSE Factor(0, <<>>)

LanesFactor(x) ==
    IF CanInt(x) /\ IntOf(x) <= 1 THEN Factor(20, <<"Narrow Road">>)
    ELSE Factor(0, <<>>)

HighwayFactor(x) ==
    IF x.t = "str" /\ x.s \in {"trunk", "primary", "motorway"}
        THEN Factor(10, <<"High Speed Zone">>)
    ELSE IF x.t = "str" /\ x.s \in {"track", "unclassified", "service"}
        THEN Factor(15, <<"Poor Lighting">>)
    ELSE Factor(0, <<>>)

VisibilityFactor(cv) ==
    IF cv > 0 THEN Factor(cv, <<"Bad Visibility">>) ELSE Factor(0, <<>>)

\* Mutant: the comparisons of lines 166-167 as >=.
RiskLevelInclusive(score) ==
    IF score >= 50 THEN "High" ELSE IF score >= 20 THEN "Moderate" ELSE "Low"

\* Lines 166-168.
RiskLevel(score) ==
    IF score > 50 THEN "High" ELSE IF score > 20 THEN "Moderate" ELSE "Low"

RiskColor(score) ==
    IF score > 50 THEN "#E11B23" ELSE IF score > 20 THEN "#F5A623" ELSE "#20BD5F"

\* ", ".join(reasons)
RECURSIVE Join(_)
Join(rs) ==
    IF rs = <<>> THEN ""
    ELSE IF Len(rs) = 1 THEN rs[1]
    ELSE rs[1] \o ", " \o Join(Tail(rs))

HazardKeys ==
    {"Sharp Curve", "Poor Lighting", "Narrow Road", "Traffic Congestion",
     "Bad Visibility", "Known Blackspot", "High Speed Zone", "Winding Road"}

\* Mutant: the Low tier is not counted.
IncStatsSkipLow(st, level) ==
    IF level = "Low" THEN st ELSE [st EXCEPT ![level] = @ + 1]

\* Line 170.
IncStats(st, level) == [st EXCEPT ![level] = @ + 1]

\* Mutant: only the first reason of a segment is counted.
IncHazardsFirst(hz, rs) ==
    IF rs = <<>> \/ Head(rs) \notin DOMAIN hz THEN hz
    ELSE [hz EXCEPT ![Head(rs)] = @ + 1]

\* Lines 171-172.
RECURSIVE IncHazards(_, _)
IncHazards(hz, rs) ==
    IF rs = <<>> THEN hz
    ELSE IncHazards(IF Head(rs) \in DOMAIN hz
                        THEN [hz EXCEPT ![Head(rs)] = @ + 1] ELSE hz,
                    Tail(rs))

\* Line 174.
Segment(u, v, geometry, score, rs) ==
    [positions |-> [geometry |-> geometry.present, from |-> u, to |-> v],
     color |-> RiskColor(score), risk |-> RiskLevel(score), info |-> Join(rs)]

\* Mutant: the error answer carries what the loop had accumulated.
ErrorResponsePartial(e) ==
    [error |-> "Server Error: " \o e, segments |-> segments, stats |-> stats,
     hazards |-> hazards]

\* Lines 181-186 and 188-190.
RouteResponse == [segments |-> segments, stats |-> stats, hazards |-> hazards]
ErrorResponse(e) == [error |-> "Server Error: " \o e]

(***************************************************************************)
(* Inputs.                                                                 *)
(***************************************************************************)
GeometryValues ==
    {NoGeometry, Line(<<>>), Line(<<20>>), Line(<<Degenerate, 21>>),
     Line(<<20, 25>>), Line(<<21, 25>>)}

LanesValues ==
    {Absent, Str("1"), Str("4"), Str("one"), List(<<"1", "2">>),
     List(<<"one", "1">>), List(<<>>), NoneV}

HighwayValues ==
    {Absent, Str("trunk"), Str("primary"), Str("motorway"), Str("track"),
     Str("unclassified"), Str("service"), Str("residential"),
     List(<<"trunk", "residential">>), List(<<>>), NoneV}

EdgeData == [geometry : GeometryValues, lanes : LanesValues, highway : HighwayValues]

Edge(g, l, h) == [geometry |-> g, lanes |-> l, highway |-> h]

\* The edges that routes of several edges are built from.
RouteEdgeData ==
    {Edge(NoGeometry, Absent, Absent),
     Edge(NoGeometry, Str("1"), Str("motorway")),
     Edge(Line(<<21, 25>>), Str("1"), Str("track")),
     Edge(Line(<<Degenerate, 21>>), Str("4"), Str("residential")),
     Edge(Line(<<20>>), List(<<"1", "2">>), List(<<"trunk", "residential">>)),
     Edge(Line(<<20, 25>>), NoneV, Str("service")),
     Edge(NoGeometry, List(<<>>), Absent),
     Edge(NoGeometry, Str("one"), List(<<>>))}

Images ==
    {Image(FALSE, TRUE, TRUE, TRUE, 6), Image(TRUE, FALSE, TRUE, TRUE, 6),
     Image(TRUE, TRUE, FALSE, TRUE, 6), Image(TRUE, TRUE, TRUE, FALSE, 6)}
    \cup {Image(TRUE, TRUE, TRUE, TRUE, d) : d \in {2, 3, 5, 6}}

RandomValues == {8, 9}

\* Paths from the origin (node 1) without a repeated node, as nx.shortest_path
\* returns them.
Routes ==
    {r \in UNION {[1 .. n -> Nodes] : n \in 1 .. MaxRouteLen} :
        /\ r[1] = 1
        /\ \A a, b \in DOMAIN r : a # b => r[a] # r[b]}

Pairs(r) == {<<r[k], r[k + 1]>> : k \in 1 .. Len(r) - 1}

\* A graph gives the data of each of its edges; a pair outside its domain is
\* one for which get_edge_data returns None.  Routes of one edge range over
\* every combination of tags.
Graphs(r) ==
    UNION {[E -> IF Len(r) <= 2 THEN EdgeData ELSE RouteEdgeData] :
              E \in SUBSET Pairs(r)}

NoValue == Absent

Locals ==
    /\ cv_score = 0
    /\ i = 0
    /\ curve = 0 /\ lanes = NoValue /\ hw = NoValue
    /\ reasons = <<>> /\ r_level = "" /\ color = ""
    /\ segments = <<>>
    /\ stats = [k \in {"High", "Moderate", "Low"} |-> 0]
    /\ hazards = [k \in HazardKeys |-> 0]
    /\ emitted = <<>>
    /\ status = 0
    /\ response = [none |-> TRUE]

Init ==
    /\ pc = "cv"
    /\ route \in Routes
    /\ graph \in Graphs(route)
    /\ rand \in RandomValues
    /\ image \in Images
    /\ risk = 0
    /\ Locals

\* Lines 114-119.
AnalyzeImage ==
    /\ pc = "cv"
    /\ cv_score' = analyze_image_cv(image)
    /\ pc' = "loop"
    /\ UNCHANGED <<route, graph, rand, image, i, curve, lanes, hw, risk, reasons,
                   r_level, color, segments, stats, hazards, emitted, status,
                   response>>

\* The except clause of lines 188-190.
Raise(e) ==
    /\ pc' = "error"
    /\ status' = 500
    /\ response' = ErrorResponse(e)

\* One iteration of the loop of lines 121-174.
LoopBody ==
    /\ pc = "loop"
    /\ i < Len(route) - 1
    /\ LET u == route[i + 1]
           v == route[i + 2]
       IN IF <<u, v>> \notin DOMAIN graph
          THEN \* line 123: None[0]
               /\ Raise("'NoneType' object is not subscriptable")
               /\ UNCHANGED <<curve, lanes, hw, risk, reasons, r_level, color,
                              segments, stats, hazards, emitted, i>>
          ELSE
            LET data == graph[<<u, v>>]
                c == calculate_curvature(data.geometry)
                f1 == CurvatureFactor(c)
                lanes0 == DictGet(data.lanes, Str("2"))
                hw0 == DictGet(data.highway, Str(""))
            IN IF lanes0.t = "list" /\ lanes0.l = <<>>
               THEN \* line 147: [][0]
                    /\ Raise("list index out of range")
                    /\ curve' = c /\ lanes' = lanes0
                    /\ risk' = f1.risk /\ reasons' = f1.reasons
                    /\ UNCHANGED <<hw, r_level, color, segments, stats, hazards,
                                   emitted, i>>
               ELSE
                 LET lanes1 == IF lanes0.t = "list" THEN Str(lanes0.l[1]) ELSE lanes0
                     f2 == LanesFactor(lanes1)
                 IN IF hw0.t = "list" /\ hw0.l = <<>>
                    THEN \* line 154: [][0]
                         /\ Raise("list index out of range")
                         /\ curve' = c /\ lanes' = lanes1 /\ hw' = hw0
                         /\ risk' = f1.risk + f2.risk
                         /\ reasons' = f1.reasons \o f2.reasons
                         /\ UNCHANGED <<r_level, color, segments, stats, hazards,
                                        emitted, i>>
                    ELSE
                      LET hw1 == IF hw0.t = "list" THEN Str(hw0.l[1]) ELSE hw0
                          f3 == HighwayFactor(hw1)
                          f4 == VisibilityFactor(cv_score)
                          score == f1.risk + f2.risk + f3.risk + f4.risk
                          rs == f1.reasons \o f2.reasons \o f3.reasons \o f4.reasons
                      IN /\ curve' = c /\ lanes' = lanes1 /\ hw' = hw1
                         /\ risk' = score /\ reasons' = rs
                         /\ r_level' = RiskLevel(score)
                         /\ color' = RiskColor(score)
                         /\ stats' = IncStats(stats, RiskLevel(score))
                         /\ hazards' = IncHazards(hazards, rs)
                         /\ segments' = Append(segments,
                                               Segment(u, v, data.geometry, score, rs))
                         /\ emitted' = Append(emitted,
                                [u |-> u, v |-> v, data |-> data, curve |-> c,
                                 lanes |-> lanes1, hw |-> hw1,
                                 running |-> f1.risk + f2.risk,
                                 visibility |-> f4.risk,
                                 risk |-> score, reasons |-> rs])
                         /\ i' = i + 1
                         /\ UNCHANGED <<pc, status, response>>
    /\ UNCHANGED <<route, graph, rand, image, cv_score>>

\* Lines 176-186.
Return ==
    /\ pc = "loop"
    /\ i >= Len(route) - 1
    /\ pc' = "done"
    /\ status' = 200
    /\ response' = RouteResponse
    /\ UNCHANGED <<route, graph, rand, image, cv_score, i, curve, lanes, hw, risk,
                   reasons, r_level, color, segments, stats, hazards, emitted>>

Next == AnalyzeImage \/ LoopBody \/ Return

Spec == Init /\ [][Next]_vars

(***************************************************************************)
(* The classification of lines 165-168 on its own, for every score.        *)
(***************************************************************************)
InitTier ==
    /\ pc = "classify"
    /\ route = <<1>>
    /\ graph = <<>>
    /\ rand \in RandomValues
    /\ image = Image(TRUE, FALSE, TRUE, TRUE, 6)
    /\ risk \in 0 .. MaxScore
    /\ Locals

Classify ==
    /\ pc = "classify"
    /\ r_level' = RiskLevel(risk)
    /\ color' = RiskColor(risk)
    /\ pc' = "classified"
    /\ UNCHANGED <<route, graph, rand, image, cv_score, i, curve, lanes, hw, risk,
                   reasons, segments, stats, hazards, emitted, status, response>>

NextTier == Classify

SpecTier == InitTier /\ [][NextTier]_vars

(***************************************************************************)
(* Properties.                                                             *)
(***************************************************************************)
Range(f) == {f[k] : k \in DOMAIN f}

Terminated == pc \in {"done", "error"}

\* The pair the loop is at.
CurrentPair == <<route[i + 1], route[i + 2]>>

\* C1: after every iteration, and in every route response, the three tier
\* counts add up to the number of segments appended.
C1_StatsSumEqualsSegments ==
    /\ stats["High"] + stats["Moderate"] + stats["Low"] = Len(segments)
    /\ status = 200 =>
          response.stats["High"] + response.stats["Moderate"]
              + response.stats["Low"] = Len(response.segments)

C1_Witness ==
    /\ pc = "done" /\ status = 200
    /\ Len(response.segments) = 2
    /\ response.stats["High"] = 1 /\ response.stats["Low"] = 1

\* C2: the tier and colour of a score follow the strict comparisons
\* score > 50 (High, #E11B23), score > 20 (Moderate, #F5A623), else Low
\* (#20BD5F); 20 is Low, 21 Moderate, 50 Moderate, 51 High.
C2_TierByStrictComparison ==
    pc = "classified" =>
        /\ risk > 50 => r_level = "High" /\ color = "#E11B23"
        /\ risk > 20 /\ risk <= 50 => r_level = "Moderate" /\ color = "#F5A623"
        /\ risk <= 20 => r_level = "Low" /\ color = "#20BD5F"
        /\ risk = 20 => r_level = "Low"
        /\ risk = 21 => r_level = "Moderate"
        /\ risk = 50 => r_level = "Moderate"
        /\ risk = 51 => r_level = "High"
        /\ color = (CASE r_level = "High" -> "#E11B23"
                      [] r_level = "Moderate" -> "#F5A623"
                      [] r_level = "Low" -> "#20BD5F")

C2_Witness == pc = "classified" /\ risk = 50 /\ r_level = "Moderate"

\* C3: the score of a segment is the sum of the curvature, lanes, road class
\* and visibility contributions, with the reasons in that order.
ExpectedParts(e) ==
    <<IF e.curve > 45 THEN Factor(30, <<"Sharp Curve">>)
      ELSE IF e.curve > 20 THEN Factor(10, <<"Winding Road">>)
      ELSE Factor(0, <<>>),
      IF CanInt(e.lanes) /\ IntOf(e.lanes) <= 1
          THEN Factor(20, <<"Narrow Road">>) ELSE Factor(0, <<>>),
      IF e.hw \in {Str("trunk"), Str("primary"), Str("motorway")}
          THEN Factor(10, <<"High Speed Zone">>)
      ELSE IF e.hw \in {Str("track"), Str("unclassified"), Str("service")}
          THEN Factor(15, <<"Poor Lighting">>)
      ELSE Factor(0, <<>>),
      IF cv_score > 0 THEN Factor(cv_score, <<"Bad Visibility">>)
      ELSE Factor(0, <<>>)>>

C3_ScoreIsSumOfFactors ==
    \A k \in DOMAIN emitted :
        LET e == emitted[k]
            p == ExpectedParts(e)
        IN /\ e.risk = p[1].risk + p[2].risk + p[3].risk + p[4].risk
           /\ e.reasons = p[1].reasons \o p[2].reasons \o p[3].reasons
                              \o p[4].reasons
           /\ e.data = Edge(NoGeometry, Str("1"), Str("motorway")) /\ cv_score = 0
                 => /\ e.risk = 30
                    /\ segments[k].risk = "Moderate"
                    /\ segments[k].color = "#F5A623"
                    /\ e.reasons = <<"Narrow Road", "High Speed Zone">>
           /\ ( /\ e.hw \in {Str("trunk"), Str("primary"), Str("motorway")}
                /\ CanInt(e.lanes) /\ IntOf(e.lanes) >= 2
                /\ e.curve <= 20 /\ cv_score = 0 )
                 => e.risk = 10 /\ segments[k].risk = "Low"

C3_Witness ==
    /\ Len(emitted) = 1
    /\ emitted[1].data = Edge(NoGeometry, Str("1"), Str("motorway"))
    /\ cv_score = 0
    /\ emitted[1].risk = 30

\* C4: a segment of tier Low for which no hazard reason was accumulated has
\* the reason list <<"Safe Route">> and the info "Safe Route".
C4_SafeRoutePlaceholder ==
    \A k \in DOMAIN emitted :
        /\ segments[k].risk = "Low"
        /\ Range(emitted[k].reasons) \cap HazardKeys = {}
        => /\ emitted[k].reasons = <<"Safe Route">>
           /\ segments[k].info = "Safe Route"

\* C5: when the score after the curvature and lanes factors is > 20 and the
\* random draw is > 0.8, 40 is added with the reason "Known Blackspot"; when
\* that score is <= 20 the reason is never added.
C5_KnownBlackspot ==
    \A k \in DOMAIN emitted :
        LET e == emitted[k] IN
        /\ e.running > 20 /\ rand > 8
              => /\ "Known Blackspot" \in Range(e.reasons)
                 /\ e.risk >= e.running + 40
        /\ e.running <= 20 => "Known Blackspot" \notin Range(e.reasons)

\* C6: no value of the lanes or highway tag of an edge of the graph makes
\* the request end in an error.
C6_TagsNeverRaise ==
    pc = "error" => CurrentPair \notin DOMAIN graph

\* C7: when the lookup of a pair of the route fails, the response is the
\* error alone, with none of the segments, stats or hazards.
C7_LookupFailureAborts ==
    Terminated /\ ~(Pairs(route) \subseteq DOMAIN graph)
        => /\ pc = "error" /\ status = 500
           /\ DOMAIN response = {"error"}

C7_Witness ==
    /\ pc = "error"
    /\ CurrentPair \notin DOMAIN graph
    /\ i = 1 /\ Len(segments) = 1
    /\ DOMAIN response = {"error"}

\* C8: hazards has exactly the 8 fixed keys, and each count is the number
\* of segments whose reason list contains the key.
C8_HazardCounts ==
    /\ DOMAIN hazards = HazardKeys
    /\ Cardinality(HazardKeys) = 8
    /\ \A r \in HazardKeys :
          hazards[r] = Cardinality({k \in DOMAIN emitted :
                                       r \in Range(emitted[k].reasons)})
    /\ \A k \in DOMAIN emitted : segments[k].info = Join(emitted[k].reasons)
    /\ status = 200 => response.hazards = hazards

C8_Witness ==
    /\ pc = "done" /\ Len(segments) = 2
    /\ response.hazards["Narrow Road"] = 2
    /\ response.hazards["Sharp Curve"] = 1
    /\ response.hazards["High Speed Zone"] = 1

\* C9: the visibility penalty is 0, 10 or 20, is 0 when the image or the
\* vision library is missing, is set before the first segment, and is the
\* same for every segment: hazards["Bad Visibility"] is 0 or len(segments).
C9_VisibilityOncePerRequest ==
    /\ cv_score \in {0, 10, 20}
    /\ ~(image.cv2 /\ image.exists /\ image.readable /\ image.processed)
          => cv_score = 0
    /\ pc = "cv" => segments = <<>>
    /\ \A k \in DOMAIN emitted :
          /\ emitted[k].visibility = cv_score
          /\ "Bad Visibility" \in Range(emitted[k].reasons) <=> cv_score > 0
    /\ hazards["Bad Visibility"] \in {0, Len(segments)}

C9_Witness ==
    /\ pc = "done" /\ Len(segments) = 2
    /\ cv_score = 10
    /\ hazards["Bad Visibility"] = 2
    /\ emitted[1].risk # emitted[2].risk

\* C10: for a path of n >= 2 nodes whose pairs are all edges of the graph,
\* the loop ends with n-1 segments, the k-th for the k-th pair of the path.
C10_OneSegmentPerPair ==
    Terminated /\ Len(route) >= 2 /\ Pairs(route) \subseteq DOMAIN graph
        => /\ pc = "done"
           /\ Len(segments) = Len(route) - 1
           /\ \A k \in DOMAIN segments :
                 /\ segments[k].positions.from = route[k]
                 /\ segments[k].positions.to = route[k + 1]

====
